---- MODULE Spec2Model ----
(***************************************************************************)
(* MemoryBackend of src/src/backend/memory.rs: the in-memory world state   *)
(* (live accounts, per-block archive, per-block logs, receipts by hash),   *)
(* its apply operation and its queries.                                    *)
(***************************************************************************)
EXTENDS Integers, Sequences, FiniteSets, TLC

VARIABLES
    vicinity,        \* MemoryVicinity: [block_number, block_hashes]
    state,           \* BTreeMap<H160, MemoryAccount>: the live accounts
    archive_state,   \* BTreeMap<U256, BTreeMap<H160, MemoryAccount>>
    local_block_num, \* U256: the tip block number
    logs,            \* BTreeMap<U256, Vec<Log>>
    tx_history,      \* BTreeMap<H256, TxReceipt>
    init_state,      \* the state argument MemoryBackend::new was given
    call,            \* the arguments of the latest apply call
    trace,           \* the store before the latest apply and after each of its instructions
    pre,             \* logs and tx_history before the latest apply
    applied,         \* the block numbers apply has been called with
    napplies,        \* number of apply calls made
    pc,              \* "applied" right after an apply call, "ready" otherwise
    bh               \* the latest block_hash query and its answer

vars == <<vicinity, state, archive_state, local_block_num, logs, tx_history,
          init_state, call, trace, pre, applied, napplies, pc, bh>>

----------------------------------------------------------------------------
(* Bounds of the model. *)

MaxApplies == 2        \* apply calls in one behaviour
MaxChanges == 2        \* instructions in one batch
MaxBlockNumber == 4    \* vicinity.block_number of a block_hash query
MaxWindow == 3         \* length of vicinity.block_hashes
MaxLogs == 2           \* logs in one apply call
MaxRecs == 2           \* receipts in one apply call

----------------------------------------------------------------------------
(* Values. *)

Addresses == {"A", "B"}
Keys == {"K1", "K2"}
ZeroH256 == 0                      \* H256::default()
Hashes == {0, 1, 2}                \* H256 block and transaction hashes
LogValues == {"l1", "l2"}          \* Log
EmptyMap == [k \in {} |-> 0]       \* BTreeMap::new()
EmptyCode == <<>>                  \* Vec::new()

\* Option<Vec<u8>>
None == [some |-> FALSE, val |-> <<>>]
Some(c) == [some |-> TRUE, val |-> c]

\* MemoryAccount and its Default
MemoryAccount(n, b, s, c, cr) ==
    [nonce |-> n, balance |-> b, storage |-> s, code |-> c, created |-> cr]
DefaultAccount == MemoryAccount(0, 0, EmptyMap, EmptyCode, FALSE)

\* TxReceipt (hash and gas_used stand for the record) and its Default
TxReceipt(h, g) == [hash |-> h, gas_used |-> g]
DefaultReceipt == TxReceipt(ZeroH256, 0)

\* Apply::Modify and Apply::Delete
Modify(a, bal, non, c, st, rs) ==
    [kind |-> "Modify", address |-> a, basic |-> [balance |-> bal, nonce |-> non],
     code |-> c, storage |-> st, reset_storage |-> rs]
Delete(a) ==
    [kind |-> "Delete", address |-> a, basic |-> [balance |-> 0, nonce |-> 0],
     code |-> None, storage |-> <<>>, reset_storage |-> FALSE]

\* BTreeMap operations
MapRemove(m, k) == [x \in DOMAIN m \ {k} |-> m[x]]
MapInsert(m, k, v) == [x \in DOMAIN m \cup {k} |-> IF x = k THEN v ELSE m[x]]
MapGetOr(m, k, d) == IF k \in DOMAIN m THEN m[k] ELSE d

----------------------------------------------------------------------------
(* apply: one Modify instruction. *)

\* the zero-valued slots are left in place
RemoveZeros_kept(storage) == storage

\* the zero-valued slots are collected and removed
RemoveZeros(storage) ==
    [k \in {x \in DOMAIN storage : storage[x] # ZeroH256} |-> storage[k]]

\* one supplied (index, value) entry
StorageEntry(storage, index, value) ==
    IF value = ZeroH256 THEN MapRemove(storage, index)
    ELSE MapInsert(storage, index, value)

\* for (index, value) in storage { ... }
\* the entries are applied last to first
RECURSIVE ApplyStorage_reversed(_, _)
ApplyStorage_reversed(storage, entries) ==
    IF entries = <<>> THEN storage
    ELSE StorageEntry(ApplyStorage_reversed(storage, Tail(entries)),
                      entries[1][1], entries[1][2])

RECURSIVE ApplyStorage(_, _)
ApplyStorage(storage, entries) ==
    IF entries = <<>> THEN storage
    ELSE ApplyStorage(StorageEntry(storage, entries[1][1], entries[1][2]), Tail(entries))

\* the code is overwritten even when the instruction supplies none
WriteAccount_code_always(account, ins) ==
    LET a1 == [account EXCEPT !.balance = ins.basic.balance,
                              !.nonce = ins.basic.nonce,
                              !.code = ins.code.val]
        s1 == IF ins.reset_storage THEN EmptyMap ELSE a1.storage
    IN  [a1 EXCEPT !.storage = ApplyStorage(RemoveZeros(s1), ins.storage)]

\* reset_storage is not honoured
WriteAccount_no_reset(account, ins) ==
    LET a1 == [account EXCEPT !.balance = ins.basic.balance,
                              !.nonce = ins.basic.nonce,
                              !.code = IF ins.code.some THEN ins.code.val ELSE @]
    IN  [a1 EXCEPT !.storage = ApplyStorage(RemoveZeros(a1.storage), ins.storage)]

\* balance, nonce, code, reset_storage, zeros and the supplied entries,
\* as both branches write them to the account they hold
WriteAccount(account, ins) ==
    LET a1 == [account EXCEPT !.balance = ins.basic.balance,
                              !.nonce = ins.basic.nonce,
                              !.code = IF ins.code.some THEN ins.code.val ELSE @]
        s1 == IF ins.reset_storage THEN EmptyMap ELSE a1.storage
    IN  [a1 EXCEPT !.storage = ApplyStorage(RemoveZeros(s1), ins.storage)]

\* is_empty without the nonce test
is_empty_no_nonce(account) ==
    account.balance = 0 /\ Len(account.code) = 0

is_empty(account) ==
    account.balance = 0 /\ account.nonce = 0 /\ Len(account.code) = 0

\* an address missing from the live state starts from the account the
\* constructor was given for it
ModifyTip_resurrect(st, ins, created_contracts) ==
    LET a0 == MapGetOr(st, ins.address,
                       MapGetOr(init_state, ins.address, DefaultAccount))
        a1 == WriteAccount(a0, ins)
        a2 == [a1 EXCEPT !.created =
                   IF ins.address \in created_contracts THEN TRUE ELSE a0.created]
    IN  MapInsert(st, ins.address, a2)

\* the created flag is assigned from created_contracts on every Modify
ModifyTip_created_assigned(st, ins, created_contracts) ==
    LET a0 == MapGetOr(st, ins.address, DefaultAccount)
        a1 == WriteAccount(a0, ins)
        a2 == [a1 EXCEPT !.created = ins.address \in created_contracts]
    IN  MapInsert(st, ins.address, a2)

\* the tip branch: the account of the live state, created flag included
ModifyTip(st, ins, created_contracts) ==
    LET a0 == MapGetOr(st, ins.address, DefaultAccount)
        a1 == WriteAccount(a0, ins)
        a2 == [a1 EXCEPT !.created =
                   IF ins.address \in created_contracts THEN TRUE ELSE a0.created]
    IN  MapInsert(st, ins.address, a2)

\* the block's archive replaces the archives of the other blocks
ModifyArchive_evict(ar, block, ins) ==
    LET archive == MapGetOr(ar, block, EmptyMap)
        a0 == MapGetOr(archive, ins.address, DefaultAccount)
    IN  MapInsert(EmptyMap, block, MapInsert(archive, ins.address, WriteAccount(a0, ins)))

\* the other branch: the account of the block's archive
ModifyArchive(ar, block, ins) ==
    LET archive == MapGetOr(ar, block, EmptyMap)
        a0 == MapGetOr(archive, ins.address, DefaultAccount)
    IN  MapInsert(ar, block, MapInsert(archive, ins.address, WriteAccount(a0, ins)))

\* the account is_empty was computed on
Written(cfg, block, tip, ins) ==
    IF tip THEN cfg.state[ins.address] ELSE cfg.archive_state[block][ins.address]

\* a Delete for a block that is not the tip removes from the block's archive
ApplyOne_delete_routed(cfg, ins, block, tip, created_contracts, delete_empty) ==
    IF ins.kind = "Delete"
    THEN IF tip
         THEN [cfg EXCEPT !.state = MapRemove(@, ins.address)]
         ELSE [cfg EXCEPT !.archive_state =
                   IF block \in DOMAIN @
                   THEN MapInsert(@, block, MapRemove(@[block], ins.address))
                   ELSE @]
    ELSE LET c1 == IF tip
                   THEN [cfg EXCEPT !.state = ModifyTip(@, ins, created_contracts)]
                   ELSE [cfg EXCEPT !.archive_state = ModifyArchive(@, block, ins)]
         IN  IF is_empty(Written(c1, block, tip, ins)) /\ delete_empty
             THEN [c1 EXCEPT !.state = MapRemove(@, ins.address)]
             ELSE c1

\* one iteration of the loop over values; cfg is [state, archive_state]
ApplyOne(cfg, ins, block, tip, created_contracts, delete_empty) ==
    IF ins.kind = "Delete"
    THEN [cfg EXCEPT !.state = MapRemove(@, ins.address)]
    ELSE LET c1 == IF tip
                   THEN [cfg EXCEPT !.state = ModifyTip(@, ins, created_contracts)]
                   ELSE [cfg EXCEPT !.archive_state = ModifyArchive(@, block, ins)]
         IN  IF is_empty(Written(c1, block, tip, ins)) /\ delete_empty
             THEN [c1 EXCEPT !.state = MapRemove(@, ins.address)]
             ELSE c1

\* the store before the loop and after each instruction
RECURSIVE ApplyValues(_, _, _, _, _, _)
ApplyValues(cfg, values, block, tip, created_contracts, delete_empty) ==
    IF values = <<>> THEN <<cfg>>
    ELSE <<cfg>> \o ApplyValues(
             ApplyOne(cfg, values[1], block, tip, created_contracts, delete_empty),
             Tail(values), block, tip, created_contracts, delete_empty)

----------------------------------------------------------------------------
(* apply: logs and receipts. *)

\* the batch's logs replace the block's
AppendLogs_replace(lg, block, new) == MapInsert(lg, block, new)

\* logs.entry(block).or_insert(Vec::new()), then every log pushed
AppendLogs(lg, block, new) == MapInsert(lg, block, MapGetOr(lg, block, <<>>) \o new)

\* a receipt is inserted only under a hash that has none
RECURSIVE InsertReceipts_first(_, _)
InsertReceipts_first(txh, recs) ==
    IF recs = <<>> THEN txh
    ELSE InsertReceipts_first(
             IF recs[1].hash \in DOMAIN txh THEN txh
             ELSE MapInsert(txh, recs[1].hash, recs[1]), Tail(recs))

\* for rec in recs { tx_history.insert(rec.hash, rec) }
RECURSIVE InsertReceipts(_, _)
InsertReceipts(txh, recs) ==
    IF recs = <<>> THEN txh
    ELSE InsertReceipts(MapInsert(txh, recs[1].hash, recs[1]), Tail(recs))

\* the tip test inverted
IsTip_inverted(block) == block # local_block_num

\* let mut tip = false; if block == self.local_block_num { tip = true; }
IsTip(block) == block = local_block_num

----------------------------------------------------------------------------
(* The queries. *)

exists(address) == address \in DOMAIN state

\* an address missing from the live state is looked up in the archives
basic_archive_fallback(address) ==
    IF address \in DOMAIN state
    THEN [balance |-> state[address].balance, nonce |-> state[address].nonce]
    ELSE IF \E b \in DOMAIN archive_state : address \in DOMAIN archive_state[b]
         THEN LET b == CHOOSE b \in DOMAIN archive_state :
                           address \in DOMAIN archive_state[b]
              IN  [balance |-> archive_state[b][address].balance,
                   nonce |-> archive_state[b][address].nonce]
         ELSE [balance |-> 0, nonce |-> 0]

basic(address) ==
    IF address \in DOMAIN state
    THEN [balance |-> state[address].balance, nonce |-> state[address].nonce]
    ELSE [balance |-> 0, nonce |-> 0]

code_size(address) ==
    IF address \in DOMAIN state THEN Len(state[address].code) ELSE 0

code(address) ==
    IF address \in DOMAIN state THEN state[address].code ELSE EmptyCode

storage(address, index) ==
    IF address \in DOMAIN state
    THEN MapGetOr(state[address].storage, index, ZeroH256)
    ELSE ZeroH256

tx_receipt(hash) ==
    IF hash \in DOMAIN tx_history THEN tx_history[hash] ELSE DefaultReceipt

\* U256 subtraction: it panics on underflow
Panic == [panic |-> TRUE, value |-> 0]
Ok(v) == [panic |-> FALSE, value |-> v]
U256Sub(a, b) == IF a.panic THEN Panic ELSE IF a.value < b THEN Panic ELSE Ok(a.value - b)

\* number > self.vicinity.block_number
NotBefore_strict(number) == number > vicinity.block_number

\* number >= self.vicinity.block_number, the first operand of ||
NotBefore(number) == number >= vicinity.block_number

block_hash(number) ==
    IF NotBefore(number) THEN Ok(ZeroH256)
    ELSE LET offset == U256Sub(U256Sub(Ok(vicinity.block_number), number), 1)
         IN  IF offset.panic THEN Panic
             ELSE IF offset.value >= Len(vicinity.block_hashes) THEN Ok(ZeroH256)
             ELSE IF offset.value + 1 \in DOMAIN vicinity.block_hashes
                  THEN Ok(vicinity.block_hashes[offset.value + 1])
                  ELSE Panic

----------------------------------------------------------------------------
(* The state machine. *)

NoCall == [block |-> 0, values |-> <<>>, logs |-> <<>>, recs |-> <<>>,
           created_contracts |-> {}, delete_empty |-> FALSE]
NoQuery == [asked |-> FALSE, number |-> 0, result |-> Ok(ZeroH256)]

\* MemoryBackend::new(vicinity, state)
\* local_block_num starts at zero instead of the vicinity's block number
New_zero_tip(v, s) ==
    /\ vicinity = v
    /\ state = s
    /\ archive_state = EmptyMap
    /\ local_block_num = 0
    /\ logs = EmptyMap
    /\ tx_history = EmptyMap
    /\ init_state = s
    /\ call = NoCall
    /\ trace = <<[state |-> s, archive_state |-> EmptyMap]>>
    /\ pre = [logs |-> EmptyMap, tx_history |-> EmptyMap]
    /\ applied = {}
    /\ napplies = 0
    /\ pc = "ready"
    /\ bh = NoQuery

New(v, s) ==
    /\ vicinity = v
    /\ state = s
    /\ archive_state = EmptyMap
    /\ local_block_num = v.block_number
    /\ logs = EmptyMap
    /\ tx_history = EmptyMap
    /\ init_state = s
    /\ call = NoCall
    /\ trace = <<[state |-> s, archive_state |-> EmptyMap]>>
    /\ pre = [logs |-> EmptyMap, tx_history |-> EmptyMap]
    /\ applied = {}
    /\ napplies = 0
    /\ pc = "ready"
    /\ bh = NoQuery

\* ApplyBackend::apply
Apply(block, values, lgs, recs, created_contracts, delete_empty) ==
    /\ pc = "ready"
    /\ napplies < MaxApplies
    /\ LET t == ApplyValues([state |-> state, archive_state |-> archive_state],
                            values, block, IsTip(block), created_contracts, delete_empty)
       IN  /\ trace' = t
           /\ state' = t[Len(t)].state
           /\ archive_state' = t[Len(t)].archive_state
    /\ logs' = AppendLogs(logs, block, lgs)
    /\ tx_history' = InsertReceipts(tx_history, recs)
    /\ call' = [block |-> block, values |-> values, logs |-> lgs, recs |-> recs,
                created_contracts |-> created_contracts, delete_empty |-> delete_empty]
    /\ pre' = [logs |-> logs, tx_history |-> tx_history]
    /\ applied' = applied \cup {block}
    /\ napplies' = napplies + 1
    /\ pc' = "applied"
    /\ UNCHANGED <<vicinity, local_block_num, init_state, bh>>

\* apply returns: the arguments it consumed are dropped, the store stays
Return ==
    /\ pc = "applied"
    /\ pc' = "ready"
    /\ call' = NoCall
    /\ trace' = <<[state |-> state, archive_state |-> archive_state]>>
    /\ pre' = [logs |-> logs, tx_history |-> tx_history]
    /\ UNCHANGED <<vicinity, state, archive_state, local_block_num, logs, tx_history,
                   init_state, applied, napplies, bh>>

\* Backend::block_hash
BlockHash(number) ==
    /\ bh' = [asked |-> TRUE, number |-> number, result |-> block_hash(number)]
    /\ UNCHANGED <<vicinity, state, archive_state, local_block_num, logs, tx_history,
                   init_state, call, trace, pre, applied, napplies, pc>>

----------------------------------------------------------------------------
(* Inputs. *)

\* the batches of at most MaxChanges instructions drawn from instrs
Batches(instrs) == UNION {[1 .. n -> instrs] : n \in 0 .. MaxChanges}

\* the vicinity of the account specifications: block 1 is the tip
TipVicinity == [block_number |-> 1, block_hashes |-> <<>>]

\* accounts given to the constructor
Funded == MemoryAccount(0, 1, [k \in {"K1"} |-> 1], <<1>>, FALSE)
Plain == MemoryAccount(1, 0, EmptyMap, EmptyCode, FALSE)
ZeroSlot == MemoryAccount(1, 0, [k \in Keys |-> IF k = "K1" THEN 0 ELSE 2], EmptyCode, FALSE)

InitStates ==
    { EmptyMap,
      [a \in {"A"} |-> Funded],
      [a \in {"A"} |-> Plain],
      [a \in Addresses |-> IF a = "A" THEN Funded ELSE Plain] }

\* an apply call with its arguments drawn from the given sets
ApplyFrom(blocks, batches, logsets, recsets, createdsets) ==
    \E block \in blocks, values \in batches, lgs \in logsets,
       recs \in recsets, cc \in createdsets, de \in BOOLEAN :
        Apply(block, values, lgs, recs, cc, de)

----------------------------------------------------------------------------
(* Spec: routing between the live state and the archive, and pruning. *)

PruneInstrs ==
    { Modify("A", 0, 0, None, <<>>, FALSE),
      Modify("A", 0, 1, None, <<>>, FALSE),
      Modify("A", 1, 0, Some(<<>>), <<>>, FALSE),
      Modify("B", 0, 0, Some(<<1>>), <<>>, FALSE) }

Init == \E s \in InitStates : New(TipVicinity, s)
Next == ApplyFrom({0, 1}, Batches(PruneInstrs), {<<>>}, {<<>>}, {{}}) \/ Return
Spec == Init /\ [][Next]_vars

----------------------------------------------------------------------------
(* The latest apply call, instruction by instruction. *)

Steps == 1 .. Len(call.values)
Before(i) == trace[i]
After(i) == trace[i + 1]
TipCall == pc = "applied" /\ call.block = local_block_num
ArchiveCall == pc = "applied" /\ call.block # local_block_num

\* the account instruction i found at its address in the store m, or the default
Prior(m, i) == MapGetOr(m, call.values[i].address, DefaultAccount)

\* balance 0, nonce 0 and empty code once instruction i is written over prior
EmptyOnce(prior, i) ==
    /\ call.values[i].basic.balance = 0
    /\ call.values[i].basic.nonce = 0
    /\ (IF call.values[i].code.some THEN call.values[i].code.val ELSE prior.code) = <<>>

\* the last instruction for address a in the batch, 0 when there is none
LastFor(a) ==
    LET is == {i \in Steps : call.values[i].address = a}
    IN  IF is = {} THEN 0 ELSE CHOOSE i \in is : \A j \in is : j <= i

----------------------------------------------------------------------------
(* Routing and pruning (Spec). *)

\* C1: in an apply whose block is not the tip, every Modify instruction leaves
\* the live state as it was: the same addresses with the same accounts, so that
\* exists, basic, code and storage answer as before, whatever delete_empty is.
C1_ArchiveModifyKeepsLive ==
    \A i \in Steps :
        (ArchiveCall /\ call.values[i].kind = "Modify")
            => After(i).state = Before(i).state

\* C2: in an apply to the tip, a Modify of address a whose account is then empty
\* (balance 0, nonce 0, empty code) removes a when delete_empty is set and keeps
\* it, with basic (0, 0), when it is not; a Modify whose account is not empty
\* never removes it. After the last instruction for a, exists and basic say so.
C2_TipPruneEmpty ==
    \A i \in Steps :
        LET a == call.values[i].address
            emp == EmptyOnce(Prior(Before(i).state, i), i)
            there == a \in DOMAIN After(i).state
        IN  (TipCall /\ call.values[i].kind = "Modify") =>
                /\ (emp /\ call.delete_empty) => ~there
                /\ (emp /\ ~call.delete_empty) =>
                       /\ there
                       /\ After(i).state[a].balance = 0
                       /\ After(i).state[a].nonce = 0
                /\ ~emp => there
                /\ (i = LastFor(a)) =>
                       /\ exists(a) = there
                       /\ (emp /\ ~call.delete_empty) =>
                              basic(a) = [balance |-> 0, nonce |-> 0]

\* C2's case: a tip apply with delete_empty removed a live account that its
\* Modify left empty, and another tip apply kept one that was not empty
C2_Witness ==
    /\ TipCall /\ call.delete_empty
    /\ \E i \in Steps :
           /\ call.values[i].kind = "Modify"
           /\ call.values[i].address \in DOMAIN Before(i).state
           /\ EmptyOnce(Prior(Before(i).state, i), i)
           /\ i = LastFor(call.values[i].address)
           /\ ~exists(call.values[i].address)
    /\ \E i \in Steps :
           /\ call.values[i].kind = "Modify"
           /\ ~EmptyOnce(Prior(Before(i).state, i), i)
           /\ exists(call.values[i].address)

\* C3: in an apply to a block b that is not the tip, with delete_empty set, a
\* Modify of address a whose account in b's archive is then empty removes a
\* from the archive of b.
C3_ArchivePruneEmpty ==
    \A i \in Steps :
        LET a == call.values[i].address
            before == MapGetOr(Before(i).archive_state, call.block, EmptyMap)
            after == MapGetOr(After(i).archive_state, call.block, EmptyMap)
        IN  (/\ ArchiveCall /\ call.delete_empty
             /\ call.values[i].kind = "Modify"
             /\ EmptyOnce(Prior(before, i), i))
                => a \notin DOMAIN after

\* C9: an apply to the tip leaves archive_state as it was, after every
\* instruction and at the end; a store that was only ever applied to at the
\* tip has an empty archive_state.
C9_TipKeepsArchive ==
    /\ TipCall => /\ \A i \in 1 .. Len(trace) :
                         trace[i].archive_state = trace[1].archive_state
                  /\ archive_state = trace[1].archive_state
    /\ applied \subseteq {local_block_num} => archive_state = EmptyMap

\* C9's case: a tip apply changed the live state of a store that holds an
\* archive snapshot
C9_Witness ==
    /\ TipCall
    /\ state # trace[1].state
    /\ archive_state # EmptyMap

\* C10: the apply that creates the archive snapshot of a block b copies the
\* live state into it: an address of the live state that the batch does not
\* mention is in b's snapshot with its live balance, nonce, code and storage.
C10_SnapshotCopiesLive ==
    (/\ ArchiveCall
     /\ call.block \notin DOMAIN trace[1].archive_state
     /\ call.block \in DOMAIN archive_state)
        => \A a \in DOMAIN trace[1].state :
               LastFor(a) = 0 =>
                   /\ a \in DOMAIN archive_state[call.block]
                   /\ archive_state[call.block][a].balance = trace[1].state[a].balance
                   /\ archive_state[call.block][a].nonce = trace[1].state[a].nonce
                   /\ archive_state[call.block][a].code = trace[1].state[a].code
                   /\ archive_state[call.block][a].storage = trace[1].state[a].storage

----------------------------------------------------------------------------
(* SpecStorage: the storage of an account under Modify. *)

StorageInstrs ==
    { Modify("A", 1, 0, None, <<>>, FALSE),
      Modify("A", 1, 0, None, <<<<"K1", 0>>>>, FALSE),
      Modify("A", 1, 0, None, <<<<"K1", 2>>, <<"K1", 1>>>>, FALSE),
      Modify("A", 1, 0, None, <<<<"K2", 1>>, <<"K2", 0>>>>, FALSE),
      Modify("A", 1, 0, None, <<<<"K2", 2>>>>, TRUE) }

InitStorageStates ==
    { EmptyMap,
      [a \in {"A"} |-> Funded],
      [a \in {"A"} |-> ZeroSlot] }

InitStorage == \E s \in InitStorageStates : New(TipVicinity, s)
NextStorage == ApplyFrom({0, 1}, Batches(StorageInstrs), {<<>>}, {<<>>}, {{}}) \/ Return
SpecStorage == InitStorage /\ [][NextStorage]_vars

\* no account of the map m holds a zero-valued slot
ZeroFree(m) ==
    \A a \in DOMAIN m : \A k \in DOMAIN m[a].storage : m[a].storage[k] # ZeroH256

\* the accounts of the store the call's Modify instructions write to, in cfg
Target(cfg) ==
    IF call.block = local_block_num THEN cfg.state
    ELSE MapGetOr(cfg.archive_state, call.block, EmptyMap)

\* C4: when the state given to the constructor holds no zero-valued slot, no
\* account of the live state or of an archive snapshot ever holds one; and
\* whatever the constructor was given, the account a Modify instruction was
\* applied to holds no zero-valued slot afterwards, under any key.
C4_NoZeroSlot ==
    /\ ZeroFree(init_state) =>
           /\ ZeroFree(state)
           /\ \A b \in DOMAIN archive_state : ZeroFree(archive_state[b])
    /\ \A i \in Steps :
           LET a == call.values[i].address
               m == Target(After(i))
           IN  (pc = "applied" /\ call.values[i].kind = "Modify" /\ a \in DOMAIN m)
                   => \A k \in DOMAIN m[a].storage : m[a].storage[k] # ZeroH256

\* C4's case: a tip Modify was applied to a live account that held a zero
\* under a key the instruction does not supply, and the account is still there
C4_Witness ==
    /\ TipCall
    /\ \E i \in Steps :
           LET a == call.values[i].address
           IN  /\ call.values[i].kind = "Modify"
               /\ ~call.values[i].reset_storage
               /\ a \in DOMAIN Before(i).state
               /\ a \in DOMAIN After(i).state
               /\ \E k \in DOMAIN Before(i).state[a].storage :
                      /\ Before(i).state[a].storage[k] = ZeroH256
                      /\ \A e \in 1 .. Len(call.values[i].storage) :
                             call.values[i].storage[e][1] # k
                      /\ k \notin DOMAIN After(i).state[a].storage

----------------------------------------------------------------------------
(* SpecBatch: several instructions for one address in a batch. *)

BatchInstrs ==
    { Delete("A"),
      Modify("A", 1, 0, Some(<<1>>), <<<<"K1", 1>>>>, FALSE),
      Modify("A", 0, 1, None, <<>>, FALSE),
      Modify("A", 1, 1, Some(<<>>), <<<<"K2", 2>>>>, TRUE),
      Modify("A", 0, 0, Some(<<>>), <<>>, TRUE) }

InitBatchStates == {EmptyMap, [a \in {"A"} |-> Funded]}

InitBatch == \E s \in InitBatchStates : New(TipVicinity, s)
NextBatch == ApplyFrom({0, 1}, Batches(BatchInstrs), {<<>>}, {<<>>}, {{}}) \/ Return
SpecBatch == InitBatch /\ [][NextBatch]_vars

\* presence, balance, nonce, code and storage of address a in the map m
AccountView(m, a) ==
    IF a \in DOMAIN m
    THEN [present |-> TRUE, balance |-> m[a].balance, nonce |-> m[a].nonce,
          code |-> m[a].code, storage |-> m[a].storage]
    ELSE [present |-> FALSE, balance |-> 0, nonce |-> 0,
          code |-> EmptyCode, storage |-> EmptyMap]

\* the number of instructions for address a in the batch
CountFor(a) == Cardinality({i \in Steps : call.values[i].address = a})

\* the store had the call held only the last instruction for address a
OnlyLast(a) ==
    ApplyValues(trace[1], <<call.values[LastFor(a)]>>, call.block,
                call.block = local_block_num, call.created_contracts,
                call.delete_empty)[2]

\* C5 as stated, on an apply to the tip, where every instruction acts on the
\* live state: with several instructions for address a in one batch, a ends
\* with the presence, balance, nonce, code and storage that the last of them
\* alone gives from the pre-batch state.
C5_LastInstructionWins ==
    \A a \in Addresses :
        (TipCall /\ CountFor(a) >= 2)
            => AccountView(state, a) = AccountView(OnlyLast(a).state, a)

\* C5 amended: in an apply to the tip with several instructions for address a,
\* when the last of them is a Delete, or a Modify that supplies code and resets
\* the storage, the live a ends as that instruction alone leaves it from the
\* pre-batch state; and when the last is any Modify and a is present
\* afterwards, basic(a) is that instruction's balance and nonce.
C5_LastOverwriteWins ==
    \A a \in Addresses :
        (TipCall /\ CountFor(a) >= 2) =>
            LET last == call.values[LastFor(a)]
            IN  /\ (\/ last.kind = "Delete"
                    \/ (last.code.some /\ last.reset_storage))
                       => AccountView(state, a) = AccountView(OnlyLast(a).state, a)
                /\ (last.kind = "Modify" /\ exists(a)) => basic(a) = last.basic

\* C5's case: a tip batch whose first instruction for a changed a's code and
\* storage and whose last one, a Modify with code and reset_storage, kept a
C5_Witness ==
    /\ TipCall
    /\ \E a \in Addresses :
           /\ CountFor(a) >= 2
           /\ call.values[LastFor(a)].kind = "Modify"
           /\ call.values[LastFor(a)].code.some
           /\ call.values[LastFor(a)].reset_storage
           /\ exists(a)
           /\ call.values[1].address = a
           /\ AccountView(After(1).state, a).code # AccountView(Before(1).state, a).code
           /\ AccountView(After(1).state, a).storage
                  # AccountView(Before(1).state, a).storage

----------------------------------------------------------------------------
(* SpecLog: the logs of a block. *)

LogSeqs == UNION {[1 .. n -> LogValues] : n \in 0 .. MaxLogs}
LogBatches == {<<>>, <<Modify("A", 1, 0, None, <<>>, FALSE)>>}

InitLog == New(TipVicinity, EmptyMap)
NextLog == ApplyFrom({0, 1}, LogBatches, LogSeqs, {<<>>}, {{}}) \/ Return
SpecLog == InitLog /\ [][NextLog]_vars

\* the log sequence stored for block b in lg
LogsOf(lg, b) == MapGetOr(lg, b, <<>>)

\* C6: the logs stored for a block b are the logs arguments of the apply calls
\* for b, concatenated in call order. Stated call by call: nothing is stored
\* before the first apply, only blocks apply was called with have an entry,
\* and an apply to b leaves for b what was stored before followed by its own
\* logs in their order, and for every other block what was stored before.
C6_LogsAccumulate ==
    /\ napplies = 0 => logs = EmptyMap
    /\ DOMAIN logs = applied
    /\ pc = "applied" =>
           \A b \in DOMAIN logs \cup DOMAIN pre.logs :
               LogsOf(logs, b) = IF b = call.block
                                 THEN LogsOf(pre.logs, b) \o call.logs
                                 ELSE LogsOf(pre.logs, b)

\* C6's case: a second apply with logs to a block that is not the tip and
\* already had logs
C6_Witness ==
    /\ ArchiveCall
    /\ call.logs # <<>>
    /\ LogsOf(pre.logs, call.block) # <<>>
    /\ Len(logs[call.block]) = Len(pre.logs[call.block]) + Len(call.logs)

----------------------------------------------------------------------------
(* SpecRec: the receipts. *)

Receipts == {TxReceipt(1, 1), TxReceipt(1, 2), TxReceipt(2, 1)}
RecSeqs == UNION {[1 .. n -> Receipts] : n \in 0 .. MaxRecs}

InitRec == New(TipVicinity, EmptyMap)
NextRec == ApplyFrom({0, 1}, LogBatches, {<<>>}, RecSeqs, {{}}) \/ Return
SpecRec == InitRec /\ [][NextRec]_vars

\* the places of the receipts with hash h in the call's recs
RecsWith(h) == {i \in 1 .. Len(call.recs) : call.recs[i].hash = h}

\* C7: tx_receipt(h) is the receipt with hash h submitted last, whatever block
\* the apply was for, and the default receipt when none was submitted; no
\* receipt is ever removed. Stated call by call: before the first apply every
\* answer is the default, and after an apply the answer for h is the last
\* receipt with hash h in its recs, or the answer as before when it has none.
C7_LastReceiptWins ==
    /\ napplies = 0 => \A h \in Hashes : tx_receipt(h) = DefaultReceipt
    /\ pc = "applied" =>
           /\ DOMAIN pre.tx_history \subseteq DOMAIN tx_history
           /\ \A h \in Hashes :
                  tx_receipt(h) =
                      IF RecsWith(h) # {}
                      THEN call.recs[CHOOSE i \in RecsWith(h) :
                                         \A j \in RecsWith(h) : j <= i]
                      ELSE IF h \in DOMAIN pre.tx_history THEN pre.tx_history[h]
                      ELSE DefaultReceipt

\* C7's case: an apply replaced a receipt stored by an earlier apply with
\* another one of the same hash, the last of two in its recs
C7_Witness ==
    /\ pc = "applied"
    /\ \E h \in DOMAIN pre.tx_history :
           \E i, j \in RecsWith(h) :
               /\ i < j
               /\ \A k \in RecsWith(h) : k <= j
               /\ call.recs[i] # call.recs[j]
               /\ tx_receipt(h) = call.recs[j]
               /\ tx_receipt(h) # pre.tx_history[h]

----------------------------------------------------------------------------
(* SpecHash: block_hash over the vicinities. *)

Windows == UNION {[1 .. n -> Hashes] : n \in 0 .. MaxWindow}

InitHash ==
    \E c \in 0 .. MaxBlockNumber, w \in Windows :
        New([block_number |-> c, block_hashes |-> w], EmptyMap)
NextHash == \E n \in 0 .. MaxBlockNumber + 1 : BlockHash(n)
SpecHash == InitHash /\ [][NextHash]_vars

\* C8: block_hash(n) never panics (no underflow, no index out of the window);
\* it is the zero hash when n >= c and when c - n - 1 is at or beyond the
\* length of the window w, and w[c - n - 1] (counted from 0) otherwise.
C8_BlockHash ==
    bh.asked =>
        LET c == vicinity.block_number
            w == vicinity.block_hashes
            n == bh.number
        IN  /\ ~bh.result.panic
            /\ n >= c => bh.result.value = ZeroH256
            /\ (n < c /\ c - n - 1 >= Len(w)) => bh.result.value = ZeroH256
            /\ (n < c /\ c - n - 1 < Len(w)) => bh.result.value = w[(c - n - 1) + 1]

\* C8's case: a query inside the window, not its first entry, answered with a
\* hash that is not zero
C8_Witness ==
    /\ bh.asked
    /\ bh.number < vicinity.block_number
    /\ vicinity.block_number - bh.number - 1 > 0
    /\ vicinity.block_number - bh.number - 1 < Len(vicinity.block_hashes)
    /\ bh.result.value # ZeroH256
    /\ bh.result.value # vicinity.block_hashes[1]

----------------------------------------------------------------------------
(* SpecIso: Modify and Delete over two blocks that are not the tip. *)

IsoInstrs ==
    { Modify("A", 1, 0, Some(<<1>>), <<<<"K1", 2>>>>, FALSE),
      Modify("B", 0, 0, None, <<>>, FALSE),
      Delete("A") }

InitIsoStates == {EmptyMap, [a \in Addresses |-> IF a = "A" THEN Funded ELSE Plain]}

InitIso == \E s \in InitIsoStates : New(TipVicinity, s)
NextIso ==
    ApplyFrom({0, 1, 2}, Batches(IsoInstrs), {<<>>, <<"l1">>}, {<<>>}, {{}}) \/ Return
SpecIso == InitIso /\ [][NextIso]_vars

\* C11 as stated: after an apply to a block that is not the tip, whatever its
\* batch holds, archive_state has an entry for the block; and an entry that
\* exists is never removed.
C11_ArchiveEntryAlways ==
    /\ ArchiveCall => call.block \in DOMAIN archive_state
    /\ pc = "applied" => DOMAIN trace[1].archive_state \subseteq DOMAIN archive_state

\* C11 amended: after an apply to a block that is not the tip whose batch
\* holds at least one Modify, archive_state has an entry for the block (a batch
\* of Deletes only, or an empty one, creates none: the entry is there only if
\* it was before); and an entry that exists is never removed, by any
\* instruction of any apply.
C11_ArchiveEntryOnModify ==
    /\ (ArchiveCall /\ \E i \in Steps : call.values[i].kind = "Modify")
           => call.block \in DOMAIN archive_state
    /\ (ArchiveCall /\ \A i \in Steps : call.values[i].kind = "Delete")
           => (call.block \in DOMAIN archive_state
                   <=> call.block \in DOMAIN trace[1].archive_state)
    /\ pc = "applied" =>
           \A i \in Steps :
               DOMAIN Before(i).archive_state \subseteq DOMAIN After(i).archive_state
    /\ pc = "applied" => DOMAIN trace[1].archive_state \subseteq DOMAIN archive_state

\* C11's case: an apply with a Modify created the entry of a block that is not
\* the tip while the entry of another such block, made earlier, is still there
C11_Witness ==
    /\ ArchiveCall
    /\ \E i \in Steps : call.values[i].kind = "Modify"
    /\ call.block \notin DOMAIN trace[1].archive_state
    /\ call.block \in DOMAIN archive_state
    /\ \E b \in DOMAIN trace[1].archive_state : b # call.block /\ b \in DOMAIN archive_state

\* the map m without the key a
Others(m, a) == [x \in DOMAIN m \ {a} |-> m[x]]

\* C12: a Delete for address A removes A from the live state, whatever block
\* the apply targets; when it is the batch's last instruction for A, exists(A)
\* is false afterwards. It creates no archive and changes none, and it leaves
\* every other address of the live state as it was.
C12_DeleteRemovesLive ==
    pc = "applied" =>
        \A i \in Steps :
            call.values[i].kind = "Delete" =>
                LET a == call.values[i].address
                IN  /\ a \notin DOMAIN After(i).state
                    /\ After(i).archive_state = Before(i).archive_state
                    /\ Others(After(i).state, a) = Others(Before(i).state, a)
                    /\ LastFor(a) = i => ~exists(a)

\* C12's case: an apply to a block that is not the tip ends with a Delete for
\* an address that was in the live state and in the block's archive, next to
\* another live address
C12_Witness ==
    /\ ArchiveCall
    /\ call.values # <<>>
    /\ LET n == Len(call.values)
           a == call.values[n].address
       IN  /\ call.values[n].kind = "Delete"
           /\ a \in DOMAIN Before(n).state
           /\ call.block \in DOMAIN Before(n).archive_state
           /\ a \in DOMAIN Before(n).archive_state[call.block]
           /\ DOMAIN Before(n).state \ {a} # {}
           /\ ~exists(a)

\* the archives that hold address a
ArchivesWith(a) == {b \in DOMAIN archive_state : a \in DOMAIN archive_state[b]}

\* C13: the queries answer from the live state alone. For an address that is
\* not in it: basic is (0, 0), code_size 0, code empty, every storage slot zero
\* and exists false, whatever the archives hold; for an address that is in it,
\* the answers are the live account's values.
C13_QueriesLiveOnly ==
    \A a \in Addresses :
        IF a \in DOMAIN state
        THEN /\ exists(a)
             /\ basic(a) = [balance |-> state[a].balance, nonce |-> state[a].nonce]
             /\ code_size(a) = Len(state[a].code)
             /\ code(a) = state[a].code
             /\ \A k \in Keys :
                    storage(a, k) = IF k \in DOMAIN state[a].storage
                                    THEN state[a].storage[k] ELSE ZeroH256
        ELSE /\ ~exists(a)
             /\ basic(a) = [balance |-> 0, nonce |-> 0]
             /\ code_size(a) = 0
             /\ code(a) = <<>>
             /\ \A k \in Keys : storage(a, k) = ZeroH256

\* C13's case: one address is missing from the live state while an archive
\* holds it with a balance, code and a storage slot, and another address is
\* live with values that differ from an archive's
C13_Witness ==
    /\ \E a \in Addresses \ DOMAIN state :
           \E b \in ArchivesWith(a) :
               /\ archive_state[b][a].balance # 0
               /\ archive_state[b][a].code # <<>>
               /\ archive_state[b][a].storage # EmptyMap
    /\ \E a \in DOMAIN state :
           \E b \in ArchivesWith(a) : archive_state[b][a] # state[a]

----------------------------------------------------------------------------
(* The storage entries of a Modify, read key by key. *)

\* the positions of the entries of the list that name the key k
SuppliedAt(entries, k) == {e \in 1 .. Len(entries) : entries[e][1] = k}

\* the value of the last entry of the list for the key k, which has one
FinalValue(entries, k) ==
    LET es == SuppliedAt(entries, k)
    IN  entries[CHOOSE e \in es : \A f \in es : f <= e][2]

\* the value under the key k in the storage st, zero when there is none
Slot(st, k) == IF k \in DOMAIN st THEN st[k] ELSE ZeroH256

\* C14: in an apply to the tip, after a Modify for A that leaves A in the
\* live state: a key supplied with zero as its last value is absent from A's
\* storage, a key supplied with a non-zero last value maps to that value (the
\* last entry for a key decides), and with reset_storage false a key the
\* instruction does not supply reads as it did before; storage(A, K) answers
\* accordingly when the instruction is the batch's last for A.
C14_StorageEntries ==
    TipCall =>
        \A i \in Steps :
            LET ins == call.values[i]
                a == ins.address
            IN  (ins.kind = "Modify" /\ a \in DOMAIN After(i).state) =>
                    LET st == After(i).state[a].storage
                        st0 == Prior(Before(i).state, i).storage
                    IN  \A k \in Keys :
                            /\ SuppliedAt(ins.storage, k) # {} =>
                                   IF FinalValue(ins.storage, k) = ZeroH256
                                   THEN k \notin DOMAIN st
                                   ELSE /\ k \in DOMAIN st
                                        /\ st[k] = FinalValue(ins.storage, k)
                            /\ (SuppliedAt(ins.storage, k) = {} /\ ~ins.reset_storage)
                                   => Slot(st, k) = Slot(st0, k)
                            /\ LastFor(a) = i => storage(a, k) = Slot(st, k)

\* C14's case: a tip Modify without reset_storage supplied one key twice with
\* different values, to an account that held a non-zero value under another key
C14_Witness ==
    /\ TipCall
    /\ \E i \in Steps :
           LET ins == call.values[i]
               a == ins.address
           IN  /\ ins.kind = "Modify"
               /\ ~ins.reset_storage
               /\ a \in DOMAIN Before(i).state
               /\ a \in DOMAIN After(i).state
               /\ \E k \in Keys :
                      /\ Cardinality(SuppliedAt(ins.storage, k)) = 2
                      /\ ins.storage[1][2] # ins.storage[2][2]
               /\ \E k \in DOMAIN Before(i).state[a].storage :
                      /\ SuppliedAt(ins.storage, k) = {}
                      /\ Before(i).state[a].storage[k] # ZeroH256
                      /\ After(i).state[a].storage[k] = Before(i).state[a].storage[k]

----------------------------------------------------------------------------
\* C15: after a Modify for A, the account it wrote (A in the live state for
\* the tip, if still there; A in the block's archive otherwise) has the
\* instruction's balance and nonce, and as code the supplied one, or without
\* one the code the account had before (empty when the instruction is the
\* first to reference it); basic(A) answers the last tip instruction's pair.
C15_ModifyFields ==
    pc = "applied" =>
        \A i \in Steps :
            LET ins == call.values[i]
                a == ins.address
                m == Target(After(i))
                a0 == Prior(Target(Before(i)), i)
            IN  (ins.kind = "Modify" /\ a \in DOMAIN m) =>
                    /\ m[a].balance = ins.basic.balance
                    /\ m[a].nonce = ins.basic.nonce
                    /\ m[a].code = IF ins.code.some THEN ins.code.val ELSE a0.code
                    /\ a \notin DOMAIN Target(Before(i)) => a0.code = <<>>
                    /\ (TipCall /\ LastFor(a) = i) => basic(a) = ins.basic

\* C15's case: a tip Modify without code changed the nonce of a live account
\* that has code and kept the code, and an address that was absent at
\* construction is live with a balance or code that a Modify gave it
C15_Witness ==
    /\ TipCall
    /\ \E i \in Steps :
           LET ins == call.values[i]
               a == ins.address
           IN  /\ ins.kind = "Modify" /\ ~ins.code.some
               /\ a \in DOMAIN Before(i).state
               /\ Before(i).state[a].code # <<>>
               /\ Before(i).state[a].nonce # ins.basic.nonce
               /\ a \in DOMAIN After(i).state
               /\ After(i).state[a].code = Before(i).state[a].code
    /\ \E a \in DOMAIN state \ DOMAIN init_state :
           basic(a).balance # 0 \/ code(a) # <<>>

----------------------------------------------------------------------------
(* SpecReset: Modify with reset_storage, at the tip and away from it. *)

ResetInstrs ==
    { Modify("A", 1, 0, None, <<<<"K1", 2>>>>, FALSE),
      Modify("A", 1, 0, None, <<>>, TRUE),
      Modify("A", 1, 0, None, <<<<"K1", 1>>, <<"K1", 0>>>>, TRUE),
      Modify("A", 1, 0, None, <<<<"K2", 2>>, <<"K2", 1>>>>, TRUE) }

InitReset == \E s \in InitStorageStates : New(TipVicinity, s)
NextReset == ApplyFrom({0, 1}, Batches(ResetInstrs), {<<>>}, {<<>>}, {{}}) \/ Return
SpecReset == InitReset /\ [][NextReset]_vars

\* the storage a list of entries gives on its own: the keys whose last
\* supplied value is not zero, each with that value
SuppliedStorage(entries) ==
    [k \in {x \in Keys : /\ SuppliedAt(entries, x) # {}
                         /\ FinalValue(entries, x) # ZeroH256}
        |-> FinalValue(entries, k)]

\* C16: after a Modify with reset_storage, the storage of the account it wrote
\* (live at the tip, the block's archive account otherwise) is exactly the
\* supplied keys whose last supplied value is not zero; nothing the account
\* held before is left.
C16_ResetStorage ==
    pc = "applied" =>
        \A i \in Steps :
            LET ins == call.values[i]
                a == ins.address
                m == Target(After(i))
            IN  (ins.kind = "Modify" /\ ins.reset_storage /\ a \in DOMAIN m) =>
                    m[a].storage = SuppliedStorage(ins.storage)

\* a Modify with reset_storage was applied, at the tip or away from it, to an
\* account that held a non-zero slot the instruction does not supply
ResetDropped(tip) ==
    /\ pc = "applied"
    /\ (call.block = local_block_num) = tip
    /\ \E i \in Steps :
           LET ins == call.values[i]
               a == ins.address
               m0 == Target(Before(i))
           IN  /\ ins.kind = "Modify" /\ ins.reset_storage
               /\ a \in DOMAIN m0
               /\ \E k \in DOMAIN m0[a].storage :
                      /\ m0[a].storage[k] # ZeroH256
                      /\ SuppliedAt(ins.storage, k) = {}
                      /\ k \notin DOMAIN Target(After(i))[a].storage

\* C16's case: the reset dropped a slot of an archive account, in a store
\* whose live account lost a slot it was constructed with to an earlier reset
C16_Witness ==
    /\ ResetDropped(FALSE)
    /\ \E a \in DOMAIN init_state \cap DOMAIN state :
           \E k \in DOMAIN init_state[a].storage :
               /\ init_state[a].storage[k] # ZeroH256
               /\ k \notin DOMAIN state[a].storage

----------------------------------------------------------------------------
(* SpecCreated: removal, re-creation and the created flag. *)

CreatedInstrs ==
    { Modify("A", 1, 0, None, <<<<"K2", 0>>, <<"K2", 2>>>>, FALSE),
      Modify("A", 0, 0, Some(<<>>), <<>>, FALSE),
      Delete("A"),
      Modify("B", 1, 0, None, <<>>, FALSE) }

InitCreatedStates == {EmptyMap, [a \in {"A"} |-> Funded]}

InitCreated == \E s \in InitCreatedStates : New(TipVicinity, s)
NextCreated ==
    ApplyFrom({0, 1}, Batches(CreatedInstrs), {<<>>}, {<<>>}, {{}, {"A"}}) \/ Return
SpecCreated == InitCreated /\ [][NextCreated]_vars

\* C17: starting with every created flag false, a live account's flag is true
\* exactly if, since the account entered the live state, a tip apply held a
\* Modify for it while its address was in created_contracts. Step by step: a
\* tip Modify leaves the flag true if the address is in created_contracts or
\* the flag was true on the account it found, and false otherwise (false on a
\* fresh account); no other instruction changes the flag of an account that
\* stays; and no account of an archive has the flag.
C17_CreatedFlag ==
    /\ \A x \in DOMAIN init_state : ~init_state[x].created
    /\ \A b \in DOMAIN archive_state :
           \A x \in DOMAIN archive_state[b] : ~archive_state[b][x].created
    /\ pc = "applied" =>
           \A i \in Steps :
               LET ins == call.values[i]
                   s0 == Before(i).state
                   s1 == After(i).state
               IN  \A x \in DOMAIN s1 :
                       IF TipCall /\ ins.kind = "Modify" /\ ins.address = x
                       THEN s1[x].created
                                <=> \/ x \in call.created_contracts
                                    \/ x \in DOMAIN s0 /\ s0[x].created
                       ELSE x \in DOMAIN s0 /\ s1[x].created = s0[x].created

\* C17's case: a tip Modify whose apply does not name the address in
\* created_contracts found the flag set by an earlier apply and left it set
C17_Witness ==
    /\ TipCall
    /\ call.created_contracts = {}
    /\ \E i \in Steps :
           LET x == call.values[i].address
           IN  /\ call.values[i].kind = "Modify"
               /\ x \in DOMAIN Before(i).state
               /\ Before(i).state[x].created
               /\ x \in DOMAIN state
               /\ state[x].created

\* tip instruction i is a Modify without code and without reset_storage for
\* an address that is not in the live state, and leaves it there
Recreates(i) ==
    /\ TipCall
    /\ call.values[i].kind = "Modify"
    /\ ~call.values[i].code.some
    /\ ~call.values[i].reset_storage
    /\ call.values[i].address \notin DOMAIN Before(i).state
    /\ call.values[i].address \in DOMAIN After(i).state

\* C20: a tip Modify without code and without reset_storage for an address
\* that was removed from the live state (by a Delete or by pruning) writes an
\* account with the instruction's balance and nonce, empty code, the created
\* flag false unless the address is in created_contracts, and as storage only
\* the supplied entries whose last value is not zero: nothing of what the
\* address held before its removal comes back.
C20_RecreatedFromDefault ==
    \A i \in Steps :
        Recreates(i) =>
            LET ins == call.values[i]
                acc == After(i).state[ins.address]
            IN  /\ acc.balance = ins.basic.balance
                /\ acc.nonce = ins.basic.nonce
                /\ acc.code = <<>>
                /\ acc.created = (ins.address \in call.created_contracts)
                /\ acc.storage = SuppliedStorage(ins.storage)

\* C20's case: the address was constructed with code and a storage slot, was
\* removed by an earlier instruction, and is live again without them
C20_Witness ==
    \E i \in Steps :
        LET a == call.values[i].address
        IN  /\ Recreates(i)
            /\ LastFor(a) = i
            /\ a \in DOMAIN init_state
            /\ init_state[a].code # <<>>
            /\ \E k \in DOMAIN init_state[a].storage :
                   /\ init_state[a].storage[k] # ZeroH256
                   /\ SuppliedAt(call.values[i].storage, k) = {}
                   /\ storage(a, k) = ZeroH256
            /\ exists(a)
            /\ code(a) = <<>>

----------------------------------------------------------------------------
(* SpecTip: stores constructed at different block numbers. *)

TipInstrs ==
    { Modify("A", 1, 1, Some(<<1>>), <<<<"K2", 2>>>>, FALSE),
      Modify("B", 0, 1, None, <<>>, FALSE) }

TipVicinities == {[block_number |-> n, block_hashes |-> <<>>] : n \in {0, 1, 2}}

InitTip == \E v \in TipVicinities : \E s \in InitIsoStates : New(v, s)
NextTip == ApplyFrom({0, 1, 2}, Batches(TipInstrs), {<<>>}, {<<>>}, {{}}) \/ Return
SpecTip == InitTip /\ [][NextTip]_vars

\* C18: local_block_num is the block number of the vicinity the store was
\* constructed with, in every state, so the tip never has an archive and a
\* block that has one is never the tip; an apply to a block that is not the
\* tip adds no account to the live state and changes none, and a tip apply
\* changes only the live accounts its own instructions name, to the balance
\* and nonce of the last of them.
C18_TipFixed ==
    /\ local_block_num = vicinity.block_number
    /\ local_block_num \notin DOMAIN archive_state
    /\ ArchiveCall =>
           \A x \in DOMAIN state :
               x \in DOMAIN trace[1].state /\ state[x] = trace[1].state[x]
    /\ TipCall =>
           \A x \in DOMAIN state :
               \/ x \in DOMAIN trace[1].state /\ state[x] = trace[1].state[x]
               \/ /\ LastFor(x) # 0
                  /\ basic(x) = call.values[LastFor(x)].basic

\* C18's case: a second apply to a block that has an archive was routed to
\* the archive again, and the live state still differs from that archive
C18_Witness ==
    /\ ArchiveCall
    /\ call.values # <<>>
    /\ call.block \in DOMAIN trace[1].archive_state
    /\ archive_state[call.block] # trace[1].archive_state[call.block]
    /\ state # EmptyMap
    /\ \E x \in DOMAIN state :
           /\ x \in DOMAIN archive_state[call.block]
           /\ archive_state[call.block][x] # state[x]

----------------------------------------------------------------------------
\* C19: an apply to block b changes nothing of the archive or of the log
\* sequence of any other block, neither their presence nor their content; and
\* in the store it writes (the live state at the tip, b's archive otherwise) a
\* Modify for address A changes the account of no other address.
C19_BlockIsolation ==
    pc = "applied" =>
        /\ Others(archive_state, call.block) = Others(trace[1].archive_state, call.block)
        /\ Others(logs, call.block) = Others(pre.logs, call.block)
        /\ \A i \in Steps :
               /\ Others(After(i).archive_state, call.block)
                      = Others(Before(i).archive_state, call.block)
               /\ call.values[i].kind = "Modify" =>
                      Others(Target(After(i)), call.values[i].address)
                          = Others(Target(Before(i)), call.values[i].address)

\* C19's case: an apply with logs and a Modify wrote the archive of one block
\* next to the archive and the logs of another block, both of them non-empty,
\* and the archive it wrote holds a second address
C19_Witness ==
    /\ ArchiveCall
    /\ call.logs # <<>>
    /\ \E i \in Steps :
           /\ call.values[i].kind = "Modify"
           /\ Others(Target(Before(i)), call.values[i].address) # EmptyMap
           /\ Target(After(i)) # Target(Before(i))
    /\ \E b \in DOMAIN trace[1].archive_state \ {call.block, local_block_num} :
           /\ trace[1].archive_state[b] # EmptyMap
           /\ b \in DOMAIN pre.logs
           /\ pre.logs[b] # <<>>

====
